---- MODULE Spec2Model ----
(***************************************************************************)
(* WalnutDAPServer (src/src/soldb/dap_server.py): the Debug Adapter        *)
(* Protocol server loop, its outgoing sequence counter, and the launch,    *)
(* setBreakpoints, continue and step handlers over a recorded trace.       *)
(*                                                                         *)
(* One action per branch of run()'s dispatch: the action reads one         *)
(* incoming message and runs its handler to the end.  The while loop of    *)
(* continue_ is modelled iteration by iteration (pc = "scan").             *)
(* Python's None is the record None; a dict is a record with its keys; a   *)
(* list is a sequence; current_step is 0-based as in the source.           *)
(***************************************************************************)
EXTENDS Integers, Sequences, FiniteSets, TLC

\* ---- bounds of the model ----
\* longest trace the trace provider returns
MaxLen == 3
\* longest function trace the trace provider returns
MaxFuncs == 2
\* most descriptors in one setBreakpoints request
MaxBatch == 2
\* no further message is read once _seq has passed this
MaxSeq == 5
\* most steps one call of the external single-step primitive moves
MaxStride == 2
\* the messages written to one stream
MaxFrames == 3

\* ---- values ----
None == [none |-> TRUE]
EmptyBody == [empty |-> TRUE]
thread_id == 1
LocalsRef == 1001
StackRef == 1002
StorageRef == 1003

PCs == {100, 200}
Lines == {1, 2}
Paths == {"a.sol", "b.sol"}
FuncNames == {"dispatcher", "transfer"}

\* str(e) of an exception: its text and, where the source wraps another
\* exception's text into it (f"...: {e}"), that text.
Msg(text) == [text |-> text, cause |-> ""]
Wrapped(text, e) == [text |-> text, cause |-> e.text]
\* the exceptions the external collaborators raise: with a text, and without
\* one (str(e) is "" for an exception raised without arguments)
Errors == {Msg("boom"), Msg("")}

Min(a, b) == IF a < b THEN a ELSE b
Max(a, b) == IF a < b THEN b ELSE a

VARIABLES
    seq,          \* self._seq
    debugger,     \* self.debugger: None or the EVMDebugger's fields
    breakpoints,  \* self.breakpoints: sourcePath -> [lines]
    req,          \* the message run() read last (None before the first)
    sent,         \* the messages sent while handling req, in send order
    log,          \* the seq of every message written to stdout, in send order
    pc,           \* "read": top of run()'s loop, "scan": in continue_'s loop,
                  \* "exit": run() has returned
    start_step,   \* continue_'s local start_step
    hit,          \* continue_'s loop left by break
    answers,      \* what the external collaborators answered while req was
                  \* handled, call by call
    stream,       \* the bytes written by _send and not read by _read: they are
                  \* followed where the writer's bytes are fed to the reader
    received,     \* the messages _read returned from stream, in order
    sys_stdout,   \* what sys.stdout is bound to: "original", the protocol
                  \* stream, or "captured_output", a CaptureOutput's buffer
    printed       \* the texts written to the original stdout outside _send

vars == <<seq, debugger, breakpoints, req, sent, log, pc, start_step, hit, answers,
          stream, received, sys_stdout, printed>>

\* ---- the external EVMDebugger, as far as the server reads and writes it ----
\* A debugger right after its construction (launch, line 170).
NewDebugger(function_name) ==
    [function_name |-> function_name,
     current_trace |-> None,      \* None or [steps |-> <<...>>]
     current_function |-> None,
     current_step |-> 0,
     breakpoints |-> {}]

FunctionInvocation(name, entry_step) == [name |-> name, entry_step |-> entry_step]

\* trace.steps[i], i 0-based
StepAt(trace, i) == trace.steps[i + 1]

Traces(maxlen, stacks) ==
    {[steps |-> st] : st \in UNION {[1..n -> [pc : PCs, stack : stacks]] : n \in 0..maxlen}}

FunctionTraces(maxfuncs, maxentry) ==
    UNION {[1..n -> [name : FuncNames, entry_step : 0..maxentry]] : n \in 0..maxfuncs}

\* ---- DAP transport helpers ----
\* The output side of the server while one request is handled: the counter,
\* the messages sent for this request, and the seq of everything sent so far.
Out0 == [seq |-> seq, sent |-> <<>>, log |-> log]

_send(o, msg) ==
    [o EXCEPT !.sent = Append(@, msg), !.log = Append(@, msg.seq)]

\* the counter left as it is after an event
_event_keeps_seq(o, event, body) ==
    _send(o, [type |-> "event", seq |-> o.seq, event |-> event,
              body |-> IF body = None THEN EmptyBody ELSE body])

_event(o, event, body) ==
    LET evt == [type |-> "event",
                seq |-> o.seq,
                event |-> event,
                body |-> IF body = None THEN EmptyBody ELSE body]
    IN _send([o EXCEPT !.seq = @ + 1], evt)

\* the response's own seq given as request_seq
_response_own_seq(o, request, success, body, message) ==
    _send([o EXCEPT !.seq = @ + 1],
          [type |-> "response", seq |-> o.seq, request_seq |-> o.seq,
           success |-> success, command |-> request.command, body |-> body,
           message |-> IF message # None /\ message # Msg("") /\ ~success
                       THEN message ELSE None])

_response(o, request, success, body, message) ==
    LET resp == [type |-> "response",
                 seq |-> o.seq,
                 request_seq |-> request.seq,
                 success |-> success,
                 command |-> request.command,
                 body |-> body,
                 message |-> IF message # None /\ message # Msg("") /\ ~success
                             THEN message ELSE None]
    IN _send([o EXCEPT !.seq = @ + 1], resp)

_send_output(o, text) ==
    _event(o, "output", [output |-> text, category |-> "stdout"])

\* CaptureOutput.__exit__: the captured text, when there is any, is sent.
CaptureExit(o, output) ==
    IF output # "" THEN _send_output(o, output) ELSE o

\* CaptureOutput (lines 18-39).  A capture is the context manager's fields;
\* io is the standard output of the process: what sys.stdout is bound to and
\* what was written to the original stdout outside _send.
CaptureOutput == [original_stdout |-> None, captured_output |-> ""]

\* sys.stdout left as it is on entry
__enter___no_redirect(c, io) ==
    [capture |-> [c EXCEPT !.original_stdout = [target |-> io.sys_stdout]], io |-> io]

\* lines 25-28
__enter__(c, io) ==
    [capture |-> [c EXCEPT !.original_stdout = [target |-> io.sys_stdout]],
     io |-> [io EXCEPT !.sys_stdout = "captured_output"]]

\* the simulation prints text: it goes where sys.stdout is bound to
write(cm, text) ==
    IF text = "" THEN cm
    ELSE IF cm.io.sys_stdout = "captured_output"
    THEN [cm EXCEPT !.capture.captured_output = @ \o text]
    ELSE [cm EXCEPT !.io.printed = Append(@, text)]

\* lines 30-39, on the normal return and on an exception alike: sys.stdout is
\* restored, then the captured text is sent.  [out, io]
__exit__(o, cm) ==
    [out |-> CaptureExit(o, cm.capture.captured_output),
     io |-> [cm.io EXCEPT !.sys_stdout = cm.capture.original_stdout.target]]

\* ---- the bytes of the transport (lines 63-67 and 94-107) ----
\* A text is a sequence of characters and a byte stream a sequence of bytes.
\* A character is a string of one character, EAcute stands for the character
\* U+00E9; a byte below 128 is written as its ASCII character, the two bytes
\* of U+00E9 in UTF-8 as "0xC3" and "0xA9".
EAcute == "U+00E9"

CRLF == <<"\r", "\n">>

\* the digits of str(n), n >= 0
DecimalChars == <<"0", "1", "2", "3", "4", "5", "6", "7", "8", "9">>

RECURSIVE Decimal(_)
Decimal(n) ==
    IF n < 10 THEN <<DecimalChars[n + 1]>>
    ELSE Append(Decimal(n \div 10), DecimalChars[(n % 10) + 1])

\* the quote written as it is
EscapeChar_keeps_quote(c) ==
    IF c = "\\" THEN <<"\\", "\\">>
    ELSE IF c = "\n" THEN <<"\\", "n">>
    ELSE IF c = "\r" THEN <<"\\", "r">>
    ELSE IF c = EAcute THEN <<"\\", "u", "0", "0", "e", "9">>
    ELSE <<c>>

\* json.dumps of one character of a string (ensure_ascii is on)
EscapeChar(c) ==
    IF c = "\"" THEN <<"\\", "\"">>
    ELSE IF c = "\\" THEN <<"\\", "\\">>
    ELSE IF c = "\n" THEN <<"\\", "n">>
    ELSE IF c = "\r" THEN <<"\\", "r">>
    ELSE IF c = EAcute THEN <<"\\", "u", "0", "0", "e", "9">>
    ELSE <<c>>

\* json.dumps of a string
RECURSIVE Escaped(_)
Escaped(text) ==
    IF text = <<>> THEN <<>>
    ELSE IF Len(text) = 1 THEN EscapeChar(text[1])
    ELSE LET m == Len(text) \div 2
         IN Escaped(SubSeq(text, 1, m)) \o Escaped(SubSeq(text, m + 1, Len(text)))

dumps_str(text) == <<"\"">> \o Escaped(text) \o <<"\"">>

\* the fixed text of an output event in json.dumps' spelling, keys in the order
\* of lines 70-75 and 57-60
EventUpToSeq ==
    <<"{", "\"", "t", "y", "p", "e", "\"", ":", " ", "\"", "e", "v", "e", "n", "t",
      "\"", ",", " ", "\"", "s", "e", "q", "\"", ":", " ">>

EventUpToOutput ==
    <<",", " ", "\"", "e", "v", "e", "n", "t", "\"", ":", " ", "\"", "o", "u", "t",
      "p", "u", "t", "\"", ",", " ", "\"", "b", "o", "d", "y", "\"", ":", " ", "{",
      "\"", "o", "u", "t", "p", "u", "t", "\"", ":", " ">>

EventAfterOutput ==
    <<",", " ", "\"", "c", "a", "t", "e", "g", "o", "r", "y", "\"", ":", " ", "\"",
      "s", "t", "d", "o", "u", "t", "\"", "}", "}">>

\* json.dumps(msg) of an output event
dumps(msg) ==
    EventUpToSeq \o Decimal(msg.seq) \o EventUpToOutput
        \o dumps_str(msg.body.output) \o EventAfterOutput

\* str.encode("utf-8")
RECURSIVE encode(_)
encode(text) ==
    IF text = <<>> THEN <<>>
    ELSE IF Len(text) = 1
    THEN (IF text[1] = EAcute THEN <<"0xC3", "0xA9">> ELSE text)
    ELSE LET m == Len(text) \div 2
         IN encode(SubSeq(text, 1, m)) \o encode(SubSeq(text, m + 1, Len(text)))

\* line 65: "Content-Length: "
ContentLengthHeader ==
    <<"C", "o", "n", "t", "e", "n", "t", "-", "L", "e", "n", "g", "t", "h", ":", " ">>

\* lines 64-66: the bytes _send writes for msg
_send_bytes(msg) ==
    LET body == encode(dumps(msg))
        header == encode(ContentLengthHeader \o Decimal(Len(body))) \o CRLF \o CRLF
    IN header \o body

\* ---- the reader (lines 94-107) ----
\* sys.stdin.buffer.readline(): the bytes up to the first "\n", with it, or
\* all that is left: [line, rest]
readline(s) ==
    LET ends == {i \in 1..Len(s) : s[i] = "\n"}
        e == IF ends = {} THEN Len(s) ELSE CHOOSE i \in ends : \A j \in ends : i <= j
    IN [line |-> SubSeq(s, 1, e), rest |-> SubSeq(s, e + 1, Len(s))]

\* line.partition(b":"): [k, v]
partition(line) ==
    LET at == {i \in 1..Len(line) : line[i] = ":"}
        c == IF at = {} THEN Len(line) + 1 ELSE CHOOSE i \in at : \A j \in at : i <= j
    IN [k |-> SubSeq(line, 1, c - 1), v |-> SubSeq(line, c + 1, Len(line))]

UpperLetters ==
    <<"A", "B", "C", "D", "E", "F", "G", "H", "I", "J", "K", "L", "M",
      "N", "O", "P", "Q", "R", "S", "T", "U", "V", "W", "X", "Y", "Z">>

LowerLetters ==
    <<"a", "b", "c", "d", "e", "f", "g", "h", "i", "j", "k", "l", "m",
      "n", "o", "p", "q", "r", "s", "t", "u", "v", "w", "x", "y", "z">>

\* bytes.lower()
lower(s) ==
    [i \in 1..Len(s) |->
        IF \E u \in 1..26 : UpperLetters[u] = s[i]
        THEN LowerLetters[CHOOSE u \in 1..26 : UpperLetters[u] = s[i]]
        ELSE s[i]]

Whitespace == {" ", "\t", "\n", "\r", "\f"}

\* bytes.strip()
strip(s) ==
    LET ink == {i \in 1..Len(s) : s[i] \notin Whitespace}
    IN IF ink = {} THEN <<>>
       ELSE SubSeq(s, CHOOSE i \in ink : \A j \in ink : i <= j,
                      CHOOSE i \in ink : \A j \in ink : i >= j)

\* int() of digits; -1 stands for the ValueError it raises on anything else
RECURSIVE int(_)
int(s) ==
    IF s = <<>> \/ \E i \in 1..Len(s) : \A d \in 1..10 : DecimalChars[d] # s[i] THEN -1
    ELSE LET last == (CHOOSE d \in 1..10 : DecimalChars[d] = s[Len(s)]) - 1
         IN IF Len(s) = 1 THEN last ELSE 10 * int(SubSeq(s, 1, Len(s) - 1)) + last

\* line 102: b"content-length"
HeaderName ==
    <<"c", "o", "n", "t", "e", "n", "t", "-", "l", "e", "n", "g", "t", "h">>

\* lines 96-103: the header lines up to the blank line or the end of the
\* stream: [content_length, rest], content_length None, [value |-> n] or
\* [raises |-> TRUE]
RECURSIVE ReadHeaders(_, _)
ReadHeaders(s, content_length) ==
    LET r == readline(s)
    IN IF r.line = <<>> \/ r.line = CRLF
       THEN [content_length |-> content_length, rest |-> r.rest]
       ELSE LET p == partition(r.line)
            IN IF lower(p.k) = HeaderName
               THEN IF int(strip(p.v)) = -1
                    THEN [content_length |-> [raises |-> TRUE], rest |-> r.rest]
                    ELSE ReadHeaders(r.rest, [value |-> int(strip(p.v))])
               ELSE ReadHeaders(r.rest, content_length)

\* bytes.decode("utf-8"); a byte that is no UTF-8, for which decode raises,
\* is left as it is and is no character of any message
RECURSIVE decode(_)
decode(b) ==
    IF Len(b) <= 1 THEN b
    ELSE IF Len(b) = 2
    THEN (IF b = <<"0xC3", "0xA9">> THEN <<EAcute>> ELSE b)
    ELSE LET half == Len(b) \div 2
             \* the two bytes of one character stay together
             m == IF b[half] = "0xC3" /\ b[half + 1] = "0xA9" THEN half + 1 ELSE half
         IN decode(SubSeq(b, 1, m)) \o decode(SubSeq(b, m + 1, Len(b)))

\* what json.loads raises on stands for itself
Malformed == [malformed |-> TRUE]

HasPrefix(s, p) == Len(s) >= Len(p) /\ SubSeq(s, 1, Len(p)) = p

\* json.loads of a string that starts at s[i], after its opening quote:
\* [ok, text, next], next the place after the closing quote
RECURSIVE loads_str(_, _)
loads_str(s, i) ==
    LET bad == [ok |-> FALSE, text |-> <<>>, next |-> i]
        more(c, n) == LET r == loads_str(s, n)
                      IN [r EXCEPT !.text = <<c>> \o @]
    IN IF i > Len(s) THEN bad
       ELSE IF s[i] = "\"" THEN [ok |-> TRUE, text |-> <<>>, next |-> i + 1]
       ELSE IF s[i] # "\\" THEN more(s[i], i + 1)
       ELSE IF i + 1 > Len(s) THEN bad
       ELSE IF s[i + 1] = "\"" THEN more("\"", i + 2)
       ELSE IF s[i + 1] = "\\" THEN more("\\", i + 2)
       ELSE IF s[i + 1] = "n" THEN more("\n", i + 2)
       ELSE IF s[i + 1] = "r" THEN more("\r", i + 2)
       ELSE IF SubSeq(s, i + 1, i + 5) = <<"u", "0", "0", "e", "9">> THEN more(EAcute, i + 6)
       ELSE bad

\* json.loads of the text of an output event
loads(s) ==
    IF ~HasPrefix(s, EventUpToSeq) THEN Malformed
    ELSE LET s1 == SubSeq(s, Len(EventUpToSeq) + 1, Len(s))
             stops == {i \in 1..Len(s1) : s1[i] = ","}
             c == IF stops = {} THEN Len(s1) + 1
                  ELSE CHOOSE i \in stops : \A j \in stops : i <= j
             n == int(SubSeq(s1, 1, c - 1))
             s2 == SubSeq(s1, c, Len(s1))
         IN IF n = -1 \/ ~HasPrefix(s2, EventUpToOutput \o <<"\"">>) THEN Malformed
            ELSE LET str == loads_str(s2, Len(EventUpToOutput) + 2)
                 IN IF ~str.ok \/ SubSeq(s2, str.next, Len(s2)) # EventAfterOutput
                    THEN Malformed
                    ELSE [type |-> "event",
                          seq |-> n,
                          event |-> "output",
                          body |-> [output |-> str.text, category |-> "stdout"]]

\* _read(): [msg, rest]: the message read from the stream s, None when no
\* Content-Length was read, and the bytes left
_read(s) ==
    LET h == ReadHeaders(s, None)
    IN IF h.content_length = None THEN [msg |-> None, rest |-> h.rest]
       ELSE IF "raises" \in DOMAIN h.content_length THEN [msg |-> Malformed, rest |-> h.rest]
       ELSE LET n == Min(h.content_length.value, Len(h.rest))
            IN [msg |-> loads(decode(SubSeq(h.rest, 1, n))),
                rest |-> SubSeq(h.rest, n + 1, Len(h.rest))]

\* The handler's messages leave: the counter and the log move on.
Emit(o) ==
    /\ seq' = o.seq
    /\ sent' = o.sent
    /\ log' = o.log

Init ==
    /\ seq = 1
    /\ debugger = None
    /\ breakpoints = <<>>
    /\ req = None
    /\ sent = <<>>
    /\ log = <<>>
    /\ pc = "read"
    /\ start_step = 0
    /\ hit = FALSE
    /\ answers = <<>>
    /\ stream = <<>>
    /\ received = <<>>
    /\ sys_stdout = "original"
    /\ printed = <<>>

\* run(): a message is read at the top of the loop.
Reading == pc = "read" /\ seq <= MaxSeq

Request(command, rseq, arguments) ==
    [type |-> "request", seq |-> rseq, command |-> command, arguments |-> arguments]

\* ---- DAP request handlers ----
\* initialize (lines 110-123)
Capabilities ==
    [supportsConfigurationDoneRequest |-> TRUE,
     supportsSetBreakpointsRequest |-> TRUE,
     supportsTerminateRequest |-> TRUE,
     supportsEvaluateForHovers |-> FALSE,
     supportsStepInTargetsRequest |-> FALSE,
     supportsStepBack |-> FALSE,
     supportsDataBreakpoints |-> FALSE,
     supportsCompletionsRequest |-> FALSE,
     supportsExceptionInfoRequest |-> FALSE]

initialize(o, request) ==
    _event(_response(o, request, TRUE, [capabilities |-> Capabilities], None),
           "initialized", None)

\* ---- launch (lines 125-288) ----
\* What the external collaborators do during one launch:
\*   kind    "deploy_raises": AutoDeployDebugger(...) raises err
\*           "ctor_raises":   EVMDebugger(...) raises err
\*           "sim_raises":    _do_interactive() raises err
\*           "sim_no_trace":  _do_interactive() returns, current_trace is None
\*           "sim_trace":     _do_interactive() returns with trace, function_trace
\*   output  the text the simulation printed
Outcome(kind, err, output, trace, function_trace) ==
    [kind |-> kind, err |-> err, output |-> output,
     trace |-> trace, function_trace |-> function_trace]

\* _do_interactive() of the external debugger: [debugger, function_trace].
\* The function trace is an attribute of the debugger that the server reads in
\* launch alone, right after this call.
_do_interactive(d, w) ==
    IF w.kind = "sim_trace"
    THEN [debugger |-> [d EXCEPT !.current_trace = w.trace],
          function_trace |-> w.function_trace]
    ELSE [debugger |-> d, function_trace |-> <<>>]

\* lines 142: function_signature = args.get("function_signature") or args.get("function")
function_signature(args) ==
    IF args.function_signature # "" THEN args.function_signature ELSE args.function

\* lines 243-247: the first invocation of the function trace with this name, from k on
RECURSIVE target_function(_, _, _)
target_function(function_trace, function_name, k) ==
    IF k > Len(function_trace) THEN None
    ELSE IF function_trace[k].name = function_name THEN function_trace[k]
    ELSE target_function(function_trace, function_name, k + 1)

\* the dispatcher not skipped when the function is not in the function trace
EntryStep_keeps_dispatcher(d, ft) ==
    LET target == target_function(ft, d.function_name, 1)
    IN IF Len(ft) > 0
       THEN IF target # None
            THEN [d EXCEPT !.current_function = target,
                           !.current_step = target.entry_step]
            ELSE [d EXCEPT !.current_function = ft[1],
                           !.current_step = ft[1].entry_step]
       ELSE [d EXCEPT !.current_step = 0]

\* lines 239-267: the entry step, and the debugger stopped at it
EntryStep(d, ft) ==
    LET target == target_function(ft, d.function_name, 1)
    IN IF Len(ft) > 0
       THEN IF target # None
            THEN [d EXCEPT !.current_function = target,
                           !.current_step = target.entry_step]
            ELSE IF Len(ft) > 1
            THEN [d EXCEPT !.current_function = ft[2],
                           !.current_step = ft[2].entry_step]
            ELSE [d EXCEPT !.current_function = ft[1],
                           !.current_step = ft[1].entry_step]
       ELSE [d EXCEPT !.current_step = 0]

\* line 136: fork_port = int(args.get("forkPort", 8545)), before the try of
\* line 145.  A forkPort is [int |-> n], a number or a numeral, or [text |-> s],
\* a string that is no numeral, for which int() raises.
fork_port_raises(args) == "int" \notin DOMAIN args.forkPort

\* lines 146-166: the addressing mode
AddressingMode(args) ==
    IF args.contractFile # "" THEN "file"
    ELSE IF args.contractAddress # "" /\ args.ethdebugDir # "" THEN "address"
    ELSE "none"

\* lines 201-280: the simulation and the entry step; an exception raised here
\* is wrapped (line 280).  [ok, out, debugger, message]
Simulate(o, d0, w) ==
    LET io0 == [sys_stdout |-> sys_stdout, printed |-> printed]
        failed(o1, d, e, io) ==
            [ok |-> FALSE, out |-> o1, debugger |-> d,
             message |-> Wrapped("Failed to generate execution trace: ", e), io |-> io]
    IN IF d0.function_name = ""
       THEN failed(o, d0, Msg("No function name specified for debugging"), io0)
       ELSE LET \* lines 221-222: with self._capture_output(): _do_interactive()
                left == __exit__(o, write(__enter__(CaptureOutput, io0), w.output))
                o1 == left.out
                sim == _do_interactive(d0, w)
                d1 == sim.debugger
            IN IF w.kind = "sim_raises" THEN failed(o1, d0, w.err, left.io)
               ELSE IF d1.current_trace = None
               THEN failed(o1, d1, Msg("Simulation failed to generate trace - check function name and arguments"), left.io)
               ELSE [ok |-> TRUE, out |-> o1,
                     debugger |-> EntryStep(d1, sim.function_trace), message |-> None,
                     io |-> left.io]

\* lines 282-286: the answer of a launch that has its trace
launch_started(o, request) ==
    _event(_event(_response(o, request, TRUE, EmptyBody, None),
                  "thread", [reason |-> "started", threadId |-> thread_id]),
           "stopped", [reason |-> "entry", threadId |-> thread_id])

\* launch: [crashed, out, debugger, calls] after the handler; crashed when an
\* exception leaves it
launch(o, request, w) ==
    LET args == request.arguments
        mode == AddressingMode(args)
        calls == IF mode = "none" THEN <<>> ELSE <<w>>
        io0 == [sys_stdout |-> sys_stdout, printed |-> printed]
        fail(o1, d, message, io) ==
            [crashed |-> FALSE, out |-> _response(o1, request, FALSE, None, message),
             debugger |-> d, calls |-> calls, io |-> io]
    IN IF fork_port_raises(args)
       THEN [crashed |-> TRUE, out |-> o, debugger |-> debugger, calls |-> <<>>, io |-> io0]
       ELSE IF mode = "file" /\ w.kind = "deploy_raises" THEN fail(o, debugger, w.err, io0)
       ELSE IF mode = "none"
       THEN fail(o, debugger, Msg("Provide contractFile or contractAddress + ethdebugDir"), io0)
       ELSE IF w.kind = "ctor_raises" THEN fail(o, debugger, w.err, io0)
       ELSE LET sim == Simulate(o, NewDebugger(function_signature(args)), w)
            IN IF ~sim.ok THEN fail(sim.out, sim.debugger, sim.message, sim.io)
               ELSE [crashed |-> FALSE, out |-> launch_started(sim.out, request),
                     debugger |-> sim.debugger, calls |-> calls, io |-> sim.io]

\* ---- setBreakpoints (lines 290-325) ----
\* The program counters a resolved descriptor stands for.
LinePC(line) == 100 * line
FuncPC(name) == IF name = "transfer" THEN 200 ELSE 100

\* do_break of the external debugger: raises for the targets in bad, and
\* otherwise registers the target's program counters.  [raised, debugger]
do_break(d, target, bad) ==
    IF target \in bad THEN [raised |-> TRUE, debugger |-> d]
    ELSE [raised |-> FALSE,
          debugger |-> [d EXCEPT !.breakpoints =
                            @ \cup (IF "line" \in DOMAIN target
                                    THEN {LinePC(target.line)}
                                    ELSE {FuncPC(target.functionName)})]]

\* lines 299-303: the values of one key of the descriptors that have it, in order
RECURSIVE Separate(_, _, _)
Separate(bps, key, k) ==
    IF k > Len(bps) THEN <<>>
    ELSE IF key \in DOMAIN bps[k]
         THEN <<bps[k][key]>> \o Separate(bps, key, k + 1)
         ELSE Separate(bps, key, k + 1)

RECURSIVE RegisterLines(_, _, _, _, _, _)
\* the loop over the lines left at the first line the resolver raises for
RegisterLines_stops_at_raise(d, verified, path, lines, k, bad) ==
    IF k > Len(lines) THEN [debugger |-> d, verified |-> verified, calls |-> <<>>]
    ELSE LET target == [path |-> path, line |-> lines[k]]
             r == do_break(d, target, bad)
             v == Append(verified, [verified |-> ~r.raised, line |-> lines[k]])
             rest == IF r.raised
                     THEN [debugger |-> d, verified |-> v, calls |-> <<>>]
                     ELSE RegisterLines(r.debugger, v, path, lines, k + 1, bad)
         IN [rest EXCEPT !.calls = <<[target |-> target, raised |-> r.raised]>> \o @]

\* lines 310-315: one verification record for each line, from the k-th on
RegisterLines(d, verified, path, lines, k, bad) ==
    IF k > Len(lines) THEN [debugger |-> d, verified |-> verified, calls |-> <<>>]
    ELSE LET target == [path |-> path, line |-> lines[k]]
             r == do_break(d, target, bad)
             rest == RegisterLines(r.debugger,
                                   Append(verified, [verified |-> ~r.raised, line |-> lines[k]]),
                                   path, lines, k + 1, bad)
         IN [rest EXCEPT !.calls = <<[target |-> target, raised |-> r.raised]>> \o @]

\* lines 318-323: one verification record for each function name, from the k-th on
RECURSIVE RegisterFunctions(_, _, _, _, _)
RegisterFunctions(d, verified, functions, k, bad) ==
    IF k > Len(functions) THEN [debugger |-> d, verified |-> verified, calls |-> <<>>]
    ELSE LET target == [functionName |-> functions[k]]
             r == do_break(d, target, bad)
             rest == RegisterFunctions(r.debugger,
                                       Append(verified, [verified |-> ~r.raised,
                                                         functionName |-> functions[k]]),
                                       functions, k + 1, bad)
         IN [rest EXCEPT !.calls = <<[target |-> target, raised |-> r.raised]>> \o @]

\* lines 305: self.breakpoints[path] = lines[:]
\* the new lines added to the stored ones
StoreLines_merges(path, lines) ==
    (path :> (IF path \in DOMAIN breakpoints THEN breakpoints[path] ELSE <<>>) \o lines)
        @@ breakpoints

\* line 305: self.breakpoints[path] = lines[:]
StoreLines(path, lines) == (path :> lines) @@ breakpoints

\* setBreakpoints: [out, debugger, breakpoints, calls] after the handler
setBreakpoints(o, request, bad) ==
    LET args == request.arguments
        path == args.source.path
        lines == Separate(args.breakpoints, "line", 1)
        functions == Separate(args.breakpoints, "functionName", 1)
        reg == IF debugger # None
               THEN LET l == RegisterLines(debugger, <<>>, path, lines, 1, bad)
                        f == RegisterFunctions(l.debugger, l.verified, functions, 1, bad)
                    IN [f EXCEPT !.calls = l.calls \o @]
               ELSE [debugger |-> debugger, verified |-> <<>>, calls |-> <<>>]
    IN [out |-> _response(o, request, TRUE, [breakpoints |-> reg.verified], None),
        debugger |-> reg.debugger,
        breakpoints |-> StoreLines(path, lines),
        calls |-> reg.calls]

\* threads (lines 327-328)
threads(o, request) ==
    _response(o, request, TRUE, [threads |-> <<[id |-> thread_id, name |-> "main"]>>], None)

\* ---- continue (lines 330-360) ----
HasTrace(d) == d # None /\ d.current_trace # None

\* lines 334-338: no debugger or no trace
continue_none(o, request) ==
    _event(_response(o, request, TRUE, EmptyBody, None),
           "stopped", [reason |-> "breakpoint", threadId |-> thread_id])

\* line 347: the loop's condition
continue_more(d) == d.current_step < Len(d.current_trace.steps) - 1

\* the pc of the step the loop came from tested against the breakpoints
continue_step_tests_old(d) ==
    [debugger |-> [d EXCEPT !.current_step = @ + 1],
     hit |-> StepAt(d.current_trace, d.current_step).pc \in d.breakpoints]

\* the loop jumping to the last step at once
continue_step_jumps(d) ==
    LET d1 == [d EXCEPT !.current_step = Len(d.current_trace.steps) - 1]
    IN [debugger |-> d1,
        hit |-> StepAt(d1.current_trace, d1.current_step).pc \in d1.breakpoints]

\* lines 348-352: one iteration of the loop: [debugger, hit]
continue_step(d) ==
    LET d1 == [d EXCEPT !.current_step = @ + 1]
    IN [debugger |-> d1,
        hit |-> StepAt(d1.current_trace, d1.current_step).pc \in d1.breakpoints]

\* lines 359-360
continue_done(o, request) ==
    _event(_response(o, request, TRUE, [allThreadsContinued |-> FALSE], None),
           "stopped", [reason |-> "breakpoint", threadId |-> thread_id])

\* ---- next, stepIn, stepOut (lines 362-384) ----
\* Where the external single-step primitive may leave current_step.
StepTargets(d) ==
    IF d.current_trace = None THEN {d.current_step}
    ELSE {j \in d.current_step .. d.current_step + MaxStride :
            j <= Max(Len(d.current_trace.steps) - 1, d.current_step)}

\* do_next / do_nexti of the external debugger: moves to target, then raises err
\* unless err is None.
do_next(d, target) == [d EXCEPT !.current_step = target]

\* the calls of the step primitive a handler made: none without a debugger
StepCalls(target, err) ==
    IF debugger # None THEN <<[target |-> target, err |-> err]>> ELSE <<>>

\* the stopped event sent after the failure response too
next_stops_on_failure(o, request, target, err) ==
    [out |-> _event(_response(o, request, debugger = None \/ err = None,
                              IF debugger # None /\ err # None THEN None ELSE EmptyBody,
                              err),
                    "stopped", [reason |-> "step", threadId |-> thread_id]),
     debugger |-> IF debugger # None THEN do_next(debugger, target) ELSE debugger,
     calls |-> StepCalls(target, err)]

\* next (lines 362-370) and stepIn (lines 372-380): [out, debugger, calls]
next(o, request, target, err) ==
    IF debugger # None /\ err # None
    THEN [out |-> _response(o, request, FALSE, None, err),
          debugger |-> do_next(debugger, target),
          calls |-> StepCalls(target, err)]
    ELSE [out |-> _event(_response(o, request, TRUE, EmptyBody, None),
                         "stopped", [reason |-> "step", threadId |-> thread_id]),
          debugger |-> IF debugger # None THEN do_next(debugger, target) ELSE debugger,
          calls |-> StepCalls(target, err)]

stepIn(o, request, target, err) ==
    IF debugger # None /\ err # None
    THEN [out |-> _response(o, request, FALSE, None, err),
          debugger |-> do_next(debugger, target),
          calls |-> StepCalls(target, err)]
    ELSE [out |-> _event(_response(o, request, TRUE, EmptyBody, None),
                         "stopped", [reason |-> "step", threadId |-> thread_id]),
          debugger |-> IF debugger # None THEN do_next(debugger, target) ELSE debugger,
          calls |-> StepCalls(target, err)]

\* stepOut (lines 382-384)
stepOut(o, request, target, err) == next(o, request, target, err)

\* ---- stackTrace (lines 386-417) ----
\* steps[current_step] raises IndexError
StepOutOfRange(d) == d.current_step >= Len(d.current_trace.steps)

\* src: what the external source-map resolver answers for the current pc:
\*   [kind |-> "raises"], [kind |-> "unknown"] or [kind |-> "known", line, column]
\* [crashed, out]: crashed when an exception leaves the handler
stackTrace(o, request, src) ==
    IF ~HasTrace(debugger)
    THEN [crashed |-> FALSE,
          out |-> _response(o, request, TRUE, [stackFrames |-> <<>>], None)]
    ELSE IF StepOutOfRange(debugger) \/ src.kind = "raises"
    THEN [crashed |-> TRUE, out |-> o]
    ELSE LET step == StepAt(debugger.current_trace, debugger.current_step)
             fn == debugger.current_function
             frame == [id |-> 1,
                       name |-> IF fn # None /\ fn.name # ""
                                THEN [function |-> fn.name, pc |-> 0]
                                ELSE [function |-> "", pc |-> step.pc],
                       line |-> IF src.kind = "known" /\ src.line # 0 THEN src.line ELSE 1,
                       column |-> IF src.kind = "known" /\ src.column # 0 THEN src.column ELSE 1,
                       source |-> IF src.kind = "known" THEN "src" ELSE ""]
         IN [crashed |-> FALSE,
             out |-> _response(o, request, TRUE,
                               [stackFrames |-> <<frame>>, totalFrames |-> 1], None)]

\* ---- scopes (lines 419-425) ----
scopes(o, request) ==
    _response(o, request, TRUE,
              [scopes |-> <<[name |-> "Locals", variablesReference |-> LocalsRef, expensive |-> FALSE],
                            [name |-> "Stack", variablesReference |-> StackRef, expensive |-> FALSE],
                            [name |-> "Storage", variablesReference |-> StorageRef, expensive |-> FALSE]>>],
              None)

\* ---- variables (lines 427-466) ----
\* hex(v) of a non-negative integer, as its characters
HexChars == <<"0", "1", "2", "3", "4", "5", "6", "7", "8", "9", "a", "b", "c", "d", "e", "f">>

RECURSIVE HexDigits(_)
HexDigits(v) ==
    IF v < 16 THEN <<HexChars[v + 1]>>
    ELSE Append(HexDigits(v \div 16), HexChars[(v % 16) + 1])

hex(v) == <<"0", "x">> \o HexDigits(v)

\* line 464-465: the Stack scope
StackVariables(stack) ==
    [i \in 1..Len(stack) |->
        [name |-> [base |-> "stack", index |-> i - 1],
         value |-> hex(stack[i]),
         variablesReference |-> 0]]

\* lines 445-461: the Locals scope; each var is [name, type, location_type, offset],
\* the decoded value of a stack variable is the external decoder's
LocalVariables(step, vars_here) ==
    [i \in 1..Len(vars_here) |->
        LET var == vars_here[i]
        IN [name |-> var.name,
            value |-> IF var.location_type = "stack" /\ var.offset < Len(step.stack)
                      THEN [decoded |-> step.stack[var.offset + 1], type |-> var.type]
                      ELSE None,
            type |-> var.type,
            variablesReference |-> 0]]

\* loc: what the external variable-location resolver and decoder do:
\*   [kind |-> "raises"], [kind |-> "no_info"] or [kind |-> "vars", vars]
\* [crashed, out]
variables(o, request, loc) ==
    LET ref == request.arguments.variablesReference
    IN IF ~HasTrace(debugger)
       THEN [crashed |-> FALSE,
             out |-> _response(o, request, TRUE, [variables |-> <<>>], None)]
       ELSE IF StepOutOfRange(debugger) THEN [crashed |-> TRUE, out |-> o]
       ELSE LET step == StepAt(debugger.current_trace, debugger.current_step)
            IN IF ref = LocalsRef /\ loc.kind = "raises"
               THEN [crashed |-> TRUE, out |-> o]
               ELSE [crashed |-> FALSE,
                     out |-> _response(o, request, TRUE,
                                [variables |->
                                    IF ref = LocalsRef
                                    THEN IF loc.kind = "vars"
                                         THEN LocalVariables(step, loc.vars)
                                         ELSE <<>>
                                    ELSE IF ref = StackRef
                                    THEN StackVariables(step.stack)
                                    ELSE <<>>],
                                None)]

\* ---- evaluate (lines 468-478) ----
\* expr: [form |-> "stack[k]", k] (an integer between the brackets),
\*       [form |-> "stack[?]"] (no integer between them) or [form |-> "other"]
NotAvailable == <<"n", "/", "a">>

\* an exception answered like an expression that is not recognized
evaluate_hides_exceptions(o, request) ==
    LET expr == request.arguments.expression
        stack == StepAt(debugger.current_trace, debugger.current_step).stack
        idx == IF expr.k < 0 THEN expr.k + Len(stack) ELSE expr.k
    IN IF /\ expr.form = "stack[k]"
          /\ HasTrace(debugger)
          /\ ~StepOutOfRange(debugger)
          /\ idx \in 0..(Len(stack) - 1)
       THEN _response(o, request, TRUE,
                      [result |-> hex(stack[idx + 1]), variablesReference |-> 0], None)
       ELSE _response(o, request, TRUE,
                      [result |-> NotAvailable, variablesReference |-> 0], None)

evaluate(o, request) ==
    LET expr == request.arguments.expression
    IN IF expr.form \in {"stack[k]", "stack[?]"} /\ HasTrace(debugger)
       THEN IF expr.form = "stack[?]"
            THEN _response(o, request, FALSE, None, Msg("invalid literal for int() with base 10"))
            ELSE IF StepOutOfRange(debugger)
            THEN _response(o, request, FALSE, None, Msg("list index out of range"))
            ELSE LET stack == StepAt(debugger.current_trace, debugger.current_step).stack
                     idx == IF expr.k < 0 THEN expr.k + Len(stack) ELSE expr.k
                 IN IF idx < 0 \/ idx >= Len(stack)
                    THEN _response(o, request, FALSE, None, Msg("list index out of range"))
                    ELSE _response(o, request, TRUE,
                                   [result |-> hex(stack[idx + 1]), variablesReference |-> 0],
                                   None)
       ELSE _response(o, request, TRUE,
                      [result |-> NotAvailable, variablesReference |-> 0], None)

\* ---- Server loop (lines 501-539) ----
\* the message without the command's name
Unsupported_unnamed(cmd) == [text |-> "Unsupported command: ", cause |-> ""]

Unsupported(cmd) == [text |-> "Unsupported command: ", cause |-> cmd]

\* The handler of request has returned to the loop (pc "read"), ended it
\* ("exit"), or an exception has left it and run() with it ("crashed").
Handled(request, o, d, b, p) ==
    /\ req' = request
    /\ Emit(o)
    /\ debugger' = d
    /\ breakpoints' = b
    /\ pc' = p
    /\ answers' = <<>>
    /\ UNCHANGED <<start_step, hit, stream, received, sys_stdout, printed>>

Returned(request, o) == Handled(request, o, debugger, breakpoints, "read")

Crashed(request) == Handled(request, Out0, debugger, breakpoints, "crashed")

\* E gives the messages the client sends and what the external collaborators
\* answer: the inputs of the actions.

\* lines 503-505: _read() returns None
EndOfStream ==
    /\ pc = "read"
    /\ pc' = "exit"
    /\ UNCHANGED <<seq, debugger, breakpoints, req, sent, log, start_step, hit, answers, stream, received, sys_stdout, printed>>

\* a message that is no request answered like an unknown command
SkipMessage_answers(E) ==
    /\ Reading
    /\ \E t \in E.other_types, s \in E.rseqs :
          LET msg == [type |-> t, seq |-> s, command |-> ""]
          IN Returned(msg, _response(Out0, msg, FALSE, None, Unsupported("")))

\* lines 506-507: a message that is no request
SkipMessage(E) ==
    /\ Reading
    /\ \E t \in E.other_types, s \in E.rseqs :
          /\ req' = [type |-> t, seq |-> s]
          /\ sent' = <<>>
    /\ answers' = <<>>
    /\ UNCHANGED <<seq, debugger, breakpoints, log, pc, start_step, hit, stream, received, sys_stdout, printed>>

Initialize(E) ==
    /\ Reading
    /\ \E s \in E.rseqs :
          LET request == Request("initialize", s, None)
          IN Returned(request, initialize(Out0, request))

Launch(E) ==
    /\ Reading
    /\ \E s \in E.rseqs, args \in E.launch_args, w \in E.outcomes :
          LET request == Request("launch", s, args)
              r == launch(Out0, request, w)
          IN IF r.crashed THEN Crashed(request)
             ELSE /\ req' = request
                  /\ Emit(r.out)
                  /\ debugger' = r.debugger
                  /\ answers' = r.calls
                  /\ sys_stdout' = r.io.sys_stdout
                  /\ printed' = r.io.printed
                  /\ UNCHANGED <<breakpoints, pc, start_step, hit, stream, received>>

\* what the descriptors of a setBreakpoints request hand to do_break
Targets(args) ==
    {IF "line" \in DOMAIN args.breakpoints[k]
     THEN [path |-> args.source.path, line |-> args.breakpoints[k].line]
     ELSE [functionName |-> args.breakpoints[k].functionName] :
        k \in 1..Len(args.breakpoints)}

SetBreakpoints(E) ==
    /\ Reading
    /\ \E s \in E.rseqs, args \in E.breakpoint_args :
       \E bad \in SUBSET Targets(args) :
          LET request == Request("setBreakpoints", s, args)
              r == setBreakpoints(Out0, request, bad)
          IN /\ req' = request
             /\ Emit(r.out)
             /\ debugger' = r.debugger
             /\ breakpoints' = r.breakpoints
             /\ answers' = r.calls
             /\ UNCHANGED <<pc, start_step, hit, stream, received, sys_stdout, printed>>

ConfigurationDone(E) ==
    /\ Reading
    /\ \E s \in E.rseqs :
          LET request == Request("configurationDone", s, None)
          IN Returned(request, _response(Out0, request, TRUE, EmptyBody, None))

Threads(E) ==
    /\ Reading
    /\ \E s \in E.rseqs :
          LET request == Request("threads", s, None)
          IN Returned(request, threads(Out0, request))

\* continue_ up to its loop
Continue(E) ==
    /\ Reading
    /\ \E s \in E.rseqs :
          LET request == Request("continue", s, None)
          IN IF ~HasTrace(debugger)
             THEN Returned(request, continue_none(Out0, request))
             ELSE /\ req' = request
                  /\ sent' = <<>>
                  /\ start_step' = debugger.current_step
                  /\ hit' = FALSE
                  /\ pc' = "scan"
                  /\ answers' = <<>>
                  /\ UNCHANGED <<seq, debugger, breakpoints, log, stream, received, sys_stdout, printed>>

\* one iteration of continue_'s loop
ContinueScan ==
    /\ pc = "scan"
    /\ ~hit
    /\ continue_more(debugger)
    /\ LET r == continue_step(debugger)
       IN /\ debugger' = r.debugger
          /\ hit' = r.hit
    /\ UNCHANGED <<seq, breakpoints, req, sent, log, pc, start_step, answers, stream, received, sys_stdout, printed>>

\* continue_ after its loop
ContinueEnd ==
    /\ pc = "scan"
    /\ hit \/ ~continue_more(debugger)
    /\ Emit(continue_done(Out0, req))
    /\ pc' = "read"
    /\ UNCHANGED <<debugger, breakpoints, req, start_step, hit, answers, stream, received, sys_stdout, printed>>

\* the inputs of one call of the single-step primitive
StepInputs(E) ==
    IF debugger = None THEN {[target |-> 0, err |-> None]}
    ELSE {[target |-> t, err |-> e] : t \in StepTargets(debugger), e \in E.step_errs}

NextStep(E) ==
    /\ Reading
    /\ \E s \in E.rseqs, i \in StepInputs(E) :
          LET request == Request("next", s, None)
              r == next(Out0, request, i.target, i.err)
          IN /\ req' = request
             /\ Emit(r.out)
             /\ debugger' = r.debugger
             /\ answers' = r.calls
             /\ UNCHANGED <<breakpoints, pc, start_step, hit, stream, received, sys_stdout, printed>>

StepIn(E) ==
    /\ Reading
    /\ \E s \in E.rseqs, i \in StepInputs(E) :
          LET request == Request("stepIn", s, None)
              r == stepIn(Out0, request, i.target, i.err)
          IN /\ req' = request
             /\ Emit(r.out)
             /\ debugger' = r.debugger
             /\ answers' = r.calls
             /\ UNCHANGED <<breakpoints, pc, start_step, hit, stream, received, sys_stdout, printed>>

StepOut(E) ==
    /\ Reading
    /\ \E s \in E.rseqs, i \in StepInputs(E) :
          LET request == Request("stepOut", s, None)
              r == stepOut(Out0, request, i.target, i.err)
          IN /\ req' = request
             /\ Emit(r.out)
             /\ debugger' = r.debugger
             /\ answers' = r.calls
             /\ UNCHANGED <<breakpoints, pc, start_step, hit, stream, received, sys_stdout, printed>>

StackTrace(E) ==
    /\ Reading
    /\ \E s \in E.rseqs, src \in E.sources :
          LET request == Request("stackTrace", s, None)
              r == stackTrace(Out0, request, src)
          IN IF r.crashed THEN Crashed(request) ELSE Returned(request, r.out)

Scopes(E) ==
    /\ Reading
    /\ \E s \in E.rseqs :
          LET request == Request("scopes", s, None)
          IN Returned(request, scopes(Out0, request))

Variables(E) ==
    /\ Reading
    /\ \E s \in E.rseqs, ref \in E.refs, loc \in E.locals :
          LET request == Request("variables", s, [variablesReference |-> ref])
              r == variables(Out0, request, loc)
          IN IF r.crashed THEN Crashed(request) ELSE Returned(request, r.out)

Evaluate(E) ==
    /\ Reading
    /\ \E s \in E.rseqs, expr \in E.exprs :
          LET request == Request("evaluate", s, [expression |-> expr])
          IN Returned(request, evaluate(Out0, request))

\* lines 535-537
\* the loop going on after the response
Disconnect_keeps_reading(E) ==
    /\ Reading
    /\ \E s \in E.rseqs, cmd \in {"disconnect", "terminate"} :
          LET request == Request(cmd, s, None)
          IN Returned(request, _response(Out0, request, TRUE, EmptyBody, None))

\* lines 535-537
Disconnect(E) ==
    /\ Reading
    /\ \E s \in E.rseqs, cmd \in {"disconnect", "terminate"} :
          LET request == Request(cmd, s, None)
          IN Handled(request, _response(Out0, request, TRUE, EmptyBody, None),
                     debugger, breakpoints, "exit")

\* lines 538-539
UnsupportedCommand(E) ==
    /\ Reading
    /\ \E s \in E.rseqs, cmd \in E.unsupported :
          LET request == Request(cmd, s, None)
          IN Returned(request, _response(Out0, request, FALSE, None, Unsupported(cmd)))

run(E) ==
    \/ EndOfStream
    \/ SkipMessage(E)
    \/ Initialize(E)
    \/ Launch(E)
    \/ SetBreakpoints(E)
    \/ ConfigurationDone(E)
    \/ Threads(E)
    \/ Continue(E)
    \/ ContinueScan
    \/ ContinueEnd
    \/ NextStep(E)
    \/ StepIn(E)
    \/ StepOut(E)
    \/ StackTrace(E)
    \/ Scopes(E)
    \/ Variables(E)
    \/ Evaluate(E)
    \/ Disconnect(E)
    \/ UnsupportedCommand(E)

\* ---- the clients and collaborators the specifications are checked with ----
LaunchArgs(files, addresses, dirs, ports, signatures, functions) ==
    [contractFile : files, contractAddress : addresses, ethdebugDir : dirs,
     forkPort : ports, function_signature : signatures, function : functions]

Outcomes(outputs, traces, function_traces) ==
    {Outcome(k, e, "", None, <<>>) : k \in {"deploy_raises", "ctor_raises"}, e \in Errors}
    \cup {Outcome("sim_raises", e, out, None, <<>>) : e \in Errors, out \in outputs}
    \cup {Outcome("sim_no_trace", Msg(""), out, None, <<>>) : out \in outputs}
    \cup {Outcome("sim_trace", Msg(""), out, t, ft) :
            out \in outputs, t \in traces, ft \in function_traces}

Descriptors == {[line |-> l] : l \in Lines} \cup {[functionName |-> f] : f \in FuncNames}

Batches(maxbatch) == UNION {[1..n -> Descriptors] : n \in 0..maxbatch}

BreakpointArgs(paths, batches) ==
    {[source |-> [path |-> p], breakpoints |-> b] : p \in paths, b \in batches}

\* one of each input: every handler runs, on one case
TheTrace ==
    [steps |-> <<[pc |-> 100, stack |-> <<>>], [pc |-> 200, stack |-> <<1, 2, 300>>],
                 [pc |-> 100, stack |-> <<>>]>>]

TheFunctionTrace ==
    <<FunctionInvocation("dispatcher", 0), FunctionInvocation("transfer", 1)>>

Plain ==
    [rseqs |-> {1},
     other_types |-> {"event"},
     launch_args |-> LaunchArgs({""}, {"0xA"}, {"/d"}, {[int |-> 8545]}, {""}, {"transfer"}),
     outcomes |-> Outcomes({""}, {TheTrace}, {TheFunctionTrace}),
     breakpoint_args |-> BreakpointArgs({"a.sol"}, {<<[line |-> 2]>>}),
     step_errs |-> {None},
     sources |-> {[kind |-> "unknown"]},
     refs |-> {StackRef},
     locals |-> {[kind |-> "no_info"]},
     exprs |-> {[form |-> "other"]},
     unsupported |-> {"frobnicate"}]

\* every command, every addressing mode, every outcome of the collaborators
Dispatch ==
    [Plain EXCEPT
        !.rseqs = {1, 5},
        !.other_types = {"response", "event"},
        !.launch_args = LaunchArgs({"", "C.sol"}, {"", "0xA"}, {"", "/d"},
                                   {[int |-> 8545], [text |-> "auto"]}, {""},
                                   {"", "transfer"}),
        !.outcomes = Outcomes({"", "compiled"}, {TheTrace}, {TheFunctionTrace}),
        !.step_errs = {None} \cup Errors,
        !.sources = {[kind |-> "raises"], [kind |-> "unknown"],
                     [kind |-> "known", line |-> 7, column |-> 0]},
        !.refs = {LocalsRef, StackRef, StorageRef},
        !.locals = {[kind |-> "raises"], [kind |-> "no_info"]},
        !.exprs = {[form |-> "other"], [form |-> "stack[?]"]}
                     \cup {[form |-> "stack[k]", k |-> k] : k \in {-1, 2, 3}}]

Next == run(Dispatch)

Spec == Init /\ [][Next]_vars

\* every trace up to MaxLen steps, entered at any step up to MaxLen, with any
\* set of registered breakpoints
Navigation ==
    [Plain EXCEPT
        !.outcomes = Outcomes({""}, Traces(MaxLen, {<<>>}),
                              {<<>>} \cup {<<FunctionInvocation("transfer", e)>> : e \in 0..MaxLen}),
        !.breakpoint_args = BreakpointArgs({"a.sol"}, {<<[line |-> 1], [line |-> 2]>>})]

NextNavigation == run(Navigation)

SpecNavigation == Init /\ [][NextNavigation]_vars

\* every function trace up to MaxFuncs invocations, for a function that is in
\* it or not
Launching ==
    [Plain EXCEPT
        !.launch_args = LaunchArgs({""}, {"0xA"}, {"/d"}, {[int |-> 8545]}, {""},
                                   {"transfer", "withdraw"}),
        !.outcomes = Outcomes({""}, {TheTrace},
                              FunctionTraces(MaxFuncs, Len(TheTrace.steps) - 1))]

NextLaunching == run(Launching)

SpecLaunching == Init /\ [][NextLaunching]_vars

\* every batch of up to MaxBatch descriptors
Breaking ==
    [Plain EXCEPT !.breakpoint_args = BreakpointArgs({"a.sol"}, Batches(MaxBatch))]

NextBreaking == run(Breaking)

SpecBreaking == Init /\ [][NextBreaking]_vars

\* batches that add, drop, reorder and empty the lines, for each of two paths
Storing ==
    [Plain EXCEPT
        !.breakpoint_args =
            BreakpointArgs(Paths,
                {<<>>,
                 <<[line |-> 1]>>,
                 <<[line |-> 2]>>,
                 <<[line |-> 1], [line |-> 2]>>,
                 <<[line |-> 2], [line |-> 1]>>,
                 <<[functionName |-> "transfer"], [line |-> 2]>>})]

NextStoring == run(Storing)

SpecStoring == Init /\ [][NextStoring]_vars

\* ---- the writer's bytes fed to the reader ----
\* the texts of the output events written: plain, with a character outside
\* ASCII, with the characters json.dumps escapes, and with the bytes that
\* mean something to the reader
FramingTexts ==
    {<<>>,
     <<"a">>,
     <<EAcute>>,
     <<"a", EAcute, "\"">>,
     <<"\\", "n">>,
     <<"\r", "\n">>,
     <<"\r", "\n", "\r", "\n", "{", "}">>,
     <<":", " ", "7", "\n">>}

\* lines 55-67: an output event is sent, its bytes go to the stream; sent
\* keeps every message written
FrameWrite ==
    /\ pc = "read"
    /\ Len(sent) < MaxFrames
    /\ \E text \in FramingTexts :
          LET o == _send_output([seq |-> seq, sent |-> sent, log |-> log], text)
          IN /\ Emit(o)
             /\ stream' = stream \o _send_bytes(o.sent[Len(o.sent)])
    /\ UNCHANGED <<debugger, breakpoints, req, pc, start_step, hit, answers, received, sys_stdout, printed>>

\* lines 94-107: _read() takes one message from the stream
FrameRead ==
    /\ stream # <<>>
    /\ LET r == _read(stream)
       IN /\ received' = Append(received, r.msg)
          /\ stream' = r.rest
    /\ UNCHANGED <<seq, debugger, breakpoints, req, sent, log, pc, start_step, hit, answers, sys_stdout, printed>>

NextFraming == FrameWrite \/ FrameRead

SpecFraming == Init /\ [][NextFraming]_vars

\* ---- the loop reading a stream that ends ----
\* a message of the client that is no request, in the form loads reads
ClientEvent(n, text) ==
    [type |-> "event", seq |-> n, event |-> "output",
     body |-> [output |-> text, category |-> "stdout"]]

\* two whole messages, one after the other
WholeStream == _send_bytes(ClientEvent(1, <<"a">>)) \o _send_bytes(ClientEvent(2, <<>>))

\* a header block that names no Content-Length, and the body after it
NoLengthBlocks ==
    {CRLF \o encode(dumps(ClientEvent(3, <<>>))),
     <<"X", ":", " ", "y", "\r", "\n">> \o CRLF \o encode(dumps(ClientEvent(3, <<>>))),
     <<"c", "o", "n", "t", "e", "n", "t", "-", "l", "e", "n", "g", "t", "h", " ", ":",
       " ", "2", "\r", "\n">> \o CRLF \o <<"{", "}">>}

\* what the client writes before it closes the stream: the two messages cut at
\* any byte, or one whole message and a block without Content-Length
InputStreams ==
    {SubSeq(WholeStream, 1, k) : k \in 1..Len(WholeStream)}
    \cup NoLengthBlocks
    \cup {_send_bytes(ClientEvent(1, <<"a">>)) \o b : b \in NoLengthBlocks}

\* the client writes and closes the stream before the server reads
StreamArrives ==
    /\ pc = "read"
    /\ req = None
    /\ stream = <<>>
    /\ stream' \in InputStreams
    /\ UNCHANGED <<seq, debugger, breakpoints, req, sent, log, pc, start_step, hit,
                   answers, received, sys_stdout, printed>>

\* lines 502-507 on the bytes of the stream: _read() returns None and the loop
\* ends, or raises and the exception leaves run(), or returns a message that
\* is no request and the loop goes on
ReadStream ==
    /\ pc = "read"
    /\ LET r == _read(stream)
       IN /\ stream' = r.rest
          /\ IF r.msg = None
             THEN /\ pc' = "exit"
                  /\ UNCHANGED <<req, sent, answers, received>>
             ELSE IF r.msg = Malformed
             THEN /\ pc' = "crashed"
                  /\ UNCHANGED <<req, sent, answers, received>>
             ELSE /\ r.msg.type # "request"
                  /\ req' = r.msg
                  /\ sent' = <<>>
                  /\ answers' = <<>>
                  /\ received' = Append(received, r.msg)
                  /\ pc' = pc
    /\ UNCHANGED <<seq, debugger, breakpoints, log, start_step, hit, sys_stdout, printed>>

NextReading == StreamArrives \/ ReadStream

SpecReading == Init /\ [][NextReading]_vars

\* ---- properties ----
\* req is a request for cmd, and its handler is not inside continue_'s loop
Answered(cmd) ==
    /\ req # None
    /\ req.type = "request"
    /\ req.command = cmd
    /\ pc # "scan"

IsEvent(msg, event, body) ==
    msg.type = "event" /\ msg.event = event /\ msg.body = body

Stopped(reason) == [reason |-> reason, threadId |-> 1]

\* C1: the seq values of the messages sent, responses and events together and
\* the output events of launch included, are 1, 2, ..., N in send order; the
\* counter is one past the number of messages sent, so it starts at 1, moves by
\* one per message sent and by nothing else.
C1_SeqInSendOrder ==
    /\ \A k \in 1..Len(log) : log[k] = k
    /\ seq = Len(log) + 1
    /\ Len(sent) <= Len(log)
    /\ \A k \in 1..Len(sent) : sent[k].seq = Len(log) - Len(sent) + k

\* C1 witness: a launch that sends an output event, a response and two events,
\* after other messages were sent and skipped.
C1_Witness ==
    /\ Answered("launch")
    /\ Len(sent) = 4
    /\ IsEvent(sent[1], "output", [output |-> "compiled", category |-> "stdout"])
    /\ sent[1].seq = 2
    /\ sent[4].seq = 5

\* C2: every response sent carries the seq and the command of the request the
\* loop is handling, for the commands of the dispatch table and for the others.
C2_ResponseCorrelated ==
    \A k \in 1..Len(sent) :
        sent[k].type = "response" =>
            /\ req # None
            /\ req.type = "request"
            /\ sent[k].request_seq = req.seq
            /\ sent[k].command = req.command

\* C2 witness: the response to an unsupported command whose request has seq 5,
\* sent as the server's third message.
C2_Witness ==
    /\ Answered("frobnicate")
    /\ req.seq = 5
    /\ Len(sent) = 1
    /\ sent[1].type = "response"
    /\ sent[1].request_seq = 5
    /\ sent[1].command = "frobnicate"
    /\ sent[1].seq = 3

\* the declarative target of continue: the smallest j > i whose pc is a
\* breakpoint, or the last index
ContinueTarget(trace, B, i) ==
    LET L == Len(trace.steps)
        hits == {j \in (i + 1)..(L - 1) : StepAt(trace, j).pc \in B}
    IN IF hits # {} THEN CHOOSE j \in hits : \A h \in hits : j <= h ELSE L - 1

\* C3: continue, started at an index i of a trace of length L with breakpoint
\* pcs B, leaves current_step at the smallest j > i with pc(j) in B, or at L-1
\* when there is none: at least i+1, unless i = L-1, where it does not move.
C3_ContinueLands ==
    (/\ Answered("continue")
     /\ HasTrace(debugger)
     /\ start_step \in 0..(Len(debugger.current_trace.steps) - 1))
    => LET L == Len(debugger.current_trace.steps)
           j == debugger.current_step
       IN /\ j = ContinueTarget(debugger.current_trace, debugger.breakpoints, start_step)
          /\ start_step < L - 1 => j >= start_step + 1
          /\ start_step = L - 1 => j = start_step

\* C3 witness: L = 3, B = {200}, pc(0) = pc(2) = 200, i = 0: continue lands at 2,
\* the breakpoint at index 0 itself does not stop it.
C3_Witness ==
    /\ Answered("continue")
    /\ HasTrace(debugger)
    /\ debugger.current_trace.steps =
          <<[pc |-> 200, stack |-> <<>>], [pc |-> 100, stack |-> <<>>],
            [pc |-> 200, stack |-> <<>>]>>
    /\ debugger.breakpoints = {200}
    /\ start_step = 0
    /\ debugger.current_step = 2

\* C4: every continue request, in any session state, is answered with a success
\* response whose body is {allThreadsContinued: false}, followed by exactly one
\* stopped event with reason breakpoint for thread 1.
C4_ContinueAnswer ==
    Answered("continue") =>
        /\ Len(sent) = 2
        /\ sent[1].type = "response"
        /\ sent[1].success
        /\ sent[1].body = [allThreadsContinued |-> FALSE]
        /\ IsEvent(sent[2], "stopped", Stopped("breakpoint"))

\* the k-th verification record describes the descriptor d
Describes(record, d) ==
    IF "line" \in DOMAIN d
    THEN "line" \in DOMAIN record /\ record.line = d.line
    ELSE "functionName" \in DOMAIN record /\ record.functionName = d.functionName

\* C5: the response to setBreakpoints has one verification record per
\* descriptor of the request, the k-th record describing the k-th descriptor,
\* for line and function descriptors mixed in any order (stated here for a
\* session that has a debugger; without one, see C6).
C5_RecordsInInputOrder ==
    (Answered("setBreakpoints") /\ debugger # None) =>
        LET bps == req.arguments.breakpoints
            v == sent[1].body.breakpoints
        IN /\ Len(v) = Len(bps)
           /\ \A k \in 1..Len(bps) : Describes(v[k], bps[k])

\* C6: setBreakpoints before any debugger exists reports every descriptor of the
\* request as unverified: one verified:false record per descriptor.
C6_UnverifiedWithoutSession ==
    (Answered("setBreakpoints") /\ debugger = None) =>
        LET bps == req.arguments.breakpoints
            v == sent[1].body.breakpoints
        IN /\ Len(v) = Len(bps)
           /\ \A k \in 1..Len(v) : ~v[k].verified

\* C7: the response to setBreakpoints is always a success response; with a
\* debugger, every descriptor is handed to the resolver whether or not an
\* earlier one raised, and each record is verified exactly when the resolver
\* did not raise for its descriptor.
C7_BatchSurvivesFailures ==
    Answered("setBreakpoints") =>
        /\ Len(sent) = 1
        /\ sent[1].type = "response"
        /\ sent[1].success
        /\ debugger # None =>
              LET v == sent[1].body.breakpoints
              IN /\ Len(answers) = Len(req.arguments.breakpoints)
                 /\ {answers[k].target : k \in 1..Len(answers)} = Targets(req.arguments)
                 /\ Len(v) = Len(answers)
                 /\ \A k \in 1..Len(v) :
                       /\ v[k].verified = ~answers[k].raised
                       /\ Describes(v[k], answers[k].target)

\* C7 witness: the resolver raised for the first of two descriptors and the
\* second is reported verified.
C7_Witness ==
    /\ Answered("setBreakpoints")
    /\ Len(answers) = 2
    /\ answers[1].raised
    /\ ~answers[2].raised
    /\ sent[1].success
    /\ ~sent[1].body.breakpoints[1].verified
    /\ sent[1].body.breakpoints[2].verified

\* the launch that req asked for got its trace
Launched ==
    /\ Answered("launch")
    /\ sent # <<>>
    /\ IsEvent(sent[Len(sent)], "stopped", Stopped("entry"))

\* C8: a successful launch sets current_step to the entry_step of the first
\* invocation of the function trace named like the requested function, which
\* becomes current_function; else of invocation 1 when there are several; else
\* of the only invocation; else to 0.
C8_EntryStepResolved ==
    Launched =>
        LET ft == answers[1].function_trace
            name == function_signature(req.arguments)
            named == {k \in 1..Len(ft) : ft[k].name = name}
        IN IF named # {}
           THEN LET k == CHOOSE k \in named : \A h \in named : k <= h
                IN /\ debugger.current_step = ft[k].entry_step
                   /\ debugger.current_function = ft[k]
           ELSE IF Len(ft) > 1 THEN debugger.current_step = ft[2].entry_step
           ELSE IF Len(ft) = 1 THEN debugger.current_step = ft[1].entry_step
           ELSE debugger.current_step = 0

\* C8 witness: invocations [dispatcher(entry 0), transfer(entry 2)], function
\* transfer: the session stops at 2 in transfer.
C8_Witness ==
    /\ Launched
    /\ answers[1].function_trace =
          <<FunctionInvocation("dispatcher", 0), FunctionInvocation("transfer", 2)>>
    /\ function_signature(req.arguments) = "transfer"
    /\ debugger.current_step = 2
    /\ debugger.current_function.name = "transfer"

\* the collaborators of the launch that req asked for all returned, with a trace
LaunchSucceeds ==
    /\ ~fork_port_raises(req.arguments)
    /\ AddressingMode(req.arguments) # "none"
    /\ function_signature(req.arguments) # ""
    /\ answers[1].kind = "sim_trace"

\* C9: a successful launch sends a success response with an empty body, then a
\* thread event (started), then a stopped event (entry), both for thread 1, and
\* nothing after them; a failed launch, whatever made it fail, sends one failure
\* response that carries a message, and no thread or stopped event.  Only
\* output events precede the response.
C9_LaunchAnswer ==
    Answered("launch") =>
        \E r \in 1..Len(sent) :
            /\ \A k \in 1..(r - 1) : sent[k].type = "event" /\ sent[k].event = "output"
            /\ sent[r].type = "response"
            /\ sent[r].success = LaunchSucceeds
            /\ IF LaunchSucceeds
               THEN /\ sent[r].body = EmptyBody
                    /\ Len(sent) = r + 2
                    /\ IsEvent(sent[r + 1], "thread", [reason |-> "started", threadId |-> 1])
                    /\ IsEvent(sent[r + 2], "stopped", Stopped("entry"))
               ELSE /\ Len(sent) = r
                    /\ sent[r].message # None
                    /\ sent[r].message.text # ""
                    /\ (answers # <<>> /\ answers[1].kind = "ctor_raises")
                          => sent[r].message = answers[1].err

\* exactly one of the two addressing modes is supplied
ExactlyOneMode(args) ==
    (args.contractFile # "") # (args.contractAddress # "" /\ args.ethdebugDir # "")

\* C10: a launch request that supplies not exactly one addressing mode is
\* answered with a failure response carrying a message, and after it the
\* session has no trace, whatever preceded it (stated for the requests whose
\* forkPort converts; the others get no answer at all, see C9).
C10_BadModeFailsWithoutTrace ==
    (/\ Answered("launch")
     /\ ~fork_port_raises(req.arguments)
     /\ ~ExactlyOneMode(req.arguments)) =>
        /\ sent # <<>>
        /\ sent[Len(sent)].type = "response"
        /\ ~sent[Len(sent)].success
        /\ sent[Len(sent)].message # None
        /\ ~HasTrace(debugger)

\* the commands of the dispatch table (lines 509-535)
DispatchTable ==
    {"initialize", "launch", "setBreakpoints", "configurationDone", "threads",
     "continue", "next", "stepIn", "stepOut", "stackTrace", "scopes", "variables",
     "evaluate", "disconnect", "terminate"}

\* req is a request for a command that is not in the dispatch table
AnsweredUnsupported ==
    /\ req # None
    /\ req.type = "request"
    /\ req.command \notin DispatchTable

\* what the session keeps between requests
Session == <<debugger, breakpoints>>

\* C11: a request for a command that is not in the dispatch table is answered
\* with exactly one message, a failure response whose message is "Unsupported
\* command: <command>"; the step that handles it changes no session state and
\* leaves the loop at its top, reading on.
C11_UnsupportedAnswered ==
    /\ [](AnsweredUnsupported =>
            /\ Len(sent) = 1
            /\ sent[1].type = "response"
            /\ ~sent[1].success
            /\ sent[1].message = [text |-> "Unsupported command: ", cause |-> req.command])
    /\ [][(pc = "read" /\ log' # log /\ AnsweredUnsupported') =>
            /\ Session' = Session
            /\ pc' = "read"
            /\ Len(log') = Len(log) + 1]_vars

\* C11 witness: frobnicate answered in a session that has a trace, the loop at
\* its top.
C11_Witness ==
    /\ AnsweredUnsupported
    /\ req.command = "frobnicate"
    /\ Len(sent) = 1
    /\ ~sent[1].success
    /\ HasTrace(debugger)
    /\ pc = "read"

\* req is a disconnect or terminate request
AnsweredDisconnect == Answered("disconnect") \/ Answered("terminate")

\* C12: disconnect and terminate are answered with exactly one success response
\* with an empty body, and the loop has ended; once the loop has ended nothing
\* is read, handled or sent.
C12_DisconnectEndsLoop ==
    /\ [](AnsweredDisconnect =>
            /\ Len(sent) = 1
            /\ sent[1].type = "response"
            /\ sent[1].success
            /\ sent[1].body = EmptyBody
            /\ sent[1].seq = Len(log)
            /\ pc = "exit")
    /\ [][pc # "exit"]_vars

\* C12 witness: terminate answered as the third message of a session.
C12_Witness ==
    /\ Answered("terminate")
    /\ pc = "exit"
    /\ Len(sent) = 1
    /\ sent[1].seq = 3

\* C13: no failure of a collaborator leaves a handler and run() with it: the
\* loop ends on disconnect, terminate and the end of the input only (the launch
\* whose forkPort does not convert is left to C9).
C13_NothingEscapes == ~(pc = "crashed" /\ req.command # "launch")

\* req is a next, stepIn or stepOut request
AnsweredStep == Answered("next") \/ Answered("stepIn") \/ Answered("stepOut")

\* the step primitive was called while req was handled, and raised
StepRaised == answers # <<>> /\ answers[1].err # None

\* the answer of a step handler, but for the message of a failure
StepAnswer ==
    IF StepRaised
    THEN /\ Len(sent) = 1
         /\ sent[1].type = "response"
         /\ ~sent[1].success
         /\ debugger.current_step = answers[1].target
    ELSE /\ Len(sent) = 2
         /\ sent[1].type = "response"
         /\ sent[1].success
         /\ sent[1].body = EmptyBody
         /\ IsEvent(sent[2], "stopped", Stopped("step"))

\* C14, as the claim states it: when the step primitive raises, the one failure
\* response carries the error's message, whatever the error.
C14_StepAnswerCarriesMessage ==
    AnsweredStep => (StepAnswer /\ (StepRaised => sent[1].message = answers[1].err))

\* C14, amended: next, stepIn and stepOut answer a step primitive that returned
\* (or was not called, without a debugger) with a success response with an
\* empty body and one stopped event (step); one that raised with exactly one
\* failure response and no event, current_step left where the primitive put it;
\* the response carries the error's message when the error has one, and no
\* message when the error's text is empty.
C14_StepAnswer ==
    AnsweredStep =>
        /\ StepAnswer
        /\ StepRaised =>
              sent[1].message = IF answers[1].err.text = "" THEN None ELSE answers[1].err

\* C14 witness: the primitive moved to step 2 and raised "boom": the failure
\* response carries it and the index stays at 2.
C14_Witness ==
    /\ Answered("stepOut")
    /\ StepRaised
    /\ answers[1].err = Msg("boom")
    /\ answers[1].target = 2
    /\ debugger.current_step = 2
    /\ Len(sent) = 1
    /\ sent[1].message = Msg("boom")

\* C15: stackTrace without a trace is answered with a success response whose
\* body has an empty stackFrames list and totalFrames 0; with a trace, with
\* exactly one frame, of id 1, and totalFrames 1 (stated for the requests that
\* are answered; the others are C13's).
C15_StackTraceFrames ==
    (Answered("stackTrace") /\ pc # "crashed") =>
        /\ Len(sent) = 1
        /\ sent[1].type = "response"
        /\ sent[1].success
        /\ IF HasTrace(debugger)
           THEN /\ Len(sent[1].body.stackFrames) = 1
                /\ sent[1].body.stackFrames[1].id = 1
                /\ sent[1].body.totalFrames = 1
           ELSE sent[1].body = [stackFrames |-> <<>>, totalFrames |-> 0]

\* C16: evaluate with a live trace answers stack[k], k an index of the current
\* step's stack (0 <= k < length), with success and the k-th entry in
\* hexadecimal; stack[k] for any other integer k with a failure that carries a
\* message; and any expression that is not stack[<integer>] with success and
\* the result "n/a".
C16_EvaluateStack ==
    (Answered("evaluate") /\ HasTrace(debugger) /\ ~StepOutOfRange(debugger)) =>
        LET expr == req.arguments.expression
            stack == StepAt(debugger.current_trace, debugger.current_step).stack
        IN /\ Len(sent) = 1
           /\ sent[1].type = "response"
           /\ IF expr.form = "stack[k]"
              THEN IF expr.k \in 0..(Len(stack) - 1)
                   THEN /\ sent[1].success
                        /\ sent[1].body.result = hex(stack[expr.k + 1])
                   ELSE /\ ~sent[1].success
                        /\ sent[1].message # None
              ELSE /\ sent[1].success
                   /\ sent[1].body.result = NotAvailable

\* C16, amended: evaluate with a live trace answers stack[k] with success and
\* the entry in hexadecimal for every k the stack can be indexed with, which
\* is -length <= k < length, a negative k counting from the end; stack[k] for
\* any other integer k, and stack[...] with no integer between the brackets,
\* with a failure that carries the exception's message; any other expression
\* with success and the result "n/a".
C16_Evaluate ==
    (Answered("evaluate") /\ HasTrace(debugger) /\ ~StepOutOfRange(debugger)) =>
        LET expr == req.arguments.expression
            stack == StepAt(debugger.current_trace, debugger.current_step).stack
            n == Len(stack)
        IN /\ Len(sent) = 1
           /\ sent[1].type = "response"
           /\ IF expr.form = "stack[k]"
              THEN IF expr.k \in (-n)..(n - 1)
                   THEN /\ sent[1].success
                        /\ sent[1].body.result =
                              hex(stack[(IF expr.k < 0 THEN expr.k + n ELSE expr.k) + 1])
                        /\ sent[1].body.variablesReference = 0
                   ELSE /\ ~sent[1].success
                        /\ sent[1].message = Msg("list index out of range")
              ELSE IF expr.form = "stack[?]"
              THEN /\ ~sent[1].success
                   /\ sent[1].message = Msg("invalid literal for int() with base 10")
              ELSE /\ sent[1].success
                   /\ sent[1].body.result = NotAvailable

\* C16 witness: stack = [1, 2, 300]: stack[2] was answered with "0x12c".
C16_Witness ==
    /\ Answered("evaluate")
    /\ HasTrace(debugger)
    /\ StepAt(debugger.current_trace, debugger.current_step).stack = <<1, 2, 300>>
    /\ req.arguments.expression = [form |-> "stack[k]", k |-> 2]
    /\ sent[1].success
    /\ sent[1].body.result = <<"0", "x", "1", "2", "c">>

\* C18: once a trace exists, current_step is an index of it:
\* 0 <= current_step <= len(steps) - 1.
C18_IndexValid ==
    HasTrace(debugger) =>
        debugger.current_step \in 0..(Len(debugger.current_trace.steps) - 1)

\* where the session is in which trace: current_step and current_trace
Position ==
    IF debugger = None THEN None
    ELSE [current_step |-> debugger.current_step, current_trace |-> debugger.current_trace]

\* C19: current_step and the trace change in the steps of launch, continue,
\* next, stepIn and stepOut only: the steps of initialize, setBreakpoints,
\* configurationDone, threads, stackTrace, scopes, variables, evaluate and of
\* unsupported commands, and the messages skipped, leave both as they are.
\* Within one continue the trace stays and each iteration of the loop moves
\* the index by exactly one, forward.
C19_FrameEffects ==
    [][/\ (Position' # Position) =>
            /\ req'.type = "request"
            /\ req'.command \in {"launch", "continue", "next", "stepIn", "stepOut"}
       /\ (pc = "scan") =>
            /\ req' = req
            /\ debugger'.current_trace = debugger.current_trace
            /\ debugger'.current_step =
                  IF pc' = "scan" THEN debugger.current_step + 1 ELSE debugger.current_step
      ]_vars

\* C19 witness: a continue that has moved the index twice, from 0 to 2, in a
\* session whose breakpoints were set.
C19_Witness ==
    /\ pc = "scan"
    /\ start_step = 0
    /\ debugger.current_step = 2
    /\ debugger.breakpoints # {}

\* the lines of the line descriptors of a batch, in the batch's order
LinesOf(bps) ==
    LET sel == SelectSeq(bps, LAMBDA d : "line" \in DOMAIN d)
    IN [k \in 1..Len(sel) |-> sel[k].line]

\* C20: after setBreakpoints for a path the stored line list of that path is
\* exactly the lines of the request, whatever was stored before; the step
\* leaves the stored line lists of every other path as they were, and no
\* other step changes any stored list.
C20_LinesReplaced ==
    /\ [](Answered("setBreakpoints") =>
            /\ req.arguments.source.path \in DOMAIN breakpoints
            /\ breakpoints[req.arguments.source.path] = LinesOf(req.arguments.breakpoints))
    /\ [][(breakpoints' # breakpoints) =>
            /\ req'.type = "request"
            /\ req'.command = "setBreakpoints"
            /\ DOMAIN breakpoints' = DOMAIN breakpoints \cup {req'.arguments.source.path}
            /\ \A p \in DOMAIN breakpoints \ {req'.arguments.source.path} :
                  breakpoints'[p] = breakpoints[p]]_vars

\* C20 witness: an empty request for a.sol left the empty list for it, and the
\* two lines stored for b.sol are still there.
C20_Witness ==
    /\ Answered("setBreakpoints")
    /\ req.arguments.source.path = "a.sol"
    /\ req.arguments.breakpoints = <<>>
    /\ DOMAIN breakpoints = {"a.sol", "b.sol"}
    /\ breakpoints["a.sol"] = <<>>
    /\ breakpoints["b.sol"] = <<1, 2>>

\* the bytes of the messages msgs, one frame after the other
RECURSIVE Frames(_)
Frames(msgs) ==
    IF msgs = <<>> THEN <<>> ELSE _send_bytes(Head(msgs)) \o Frames(Tail(msgs))

\* C17: for every message written, the Content-Length the reader finds in its
\* header is the number of bytes of its UTF-8 JSON body, which is what is left
\* after the header; the messages read from the stream are the messages
\* written, in order, and what is left in the stream is exactly the frames of
\* the messages not read yet.
C17_FramingRoundTrip ==
    /\ \A k \in 1..Len(sent) :
          LET h == ReadHeaders(_send_bytes(sent[k]), None)
          IN /\ h.content_length = [value |-> Len(encode(dumps(sent[k])))]
             /\ h.rest = encode(dumps(sent[k]))
    /\ Len(received) <= Len(sent)
    /\ received = SubSeq(sent, 1, Len(received))
    /\ stream = Frames(SubSeq(sent, Len(received) + 1, Len(sent)))

\* C17 witness: two messages written and read back, the first with a
\* character outside ASCII and a quote, the second with CR LF CR LF in it.
C17_Witness ==
    /\ Len(sent) = 2
    /\ received = sent
    /\ stream = <<>>
    /\ sent[1].body.output = <<"a", EAcute, "\"">>
    /\ sent[2].body.output = <<"\r", "\n", "\r", "\n", "{", "}">>

\* the launch handled last ran the simulation inside the capturing block
SimulationRan ==
    /\ Answered("launch")
    /\ answers # <<>>
    /\ answers[1].kind \in {"sim_raises", "sim_no_trace", "sim_trace"}
    /\ function_signature(req.arguments) # ""

OutputEvents == {k \in 1..Len(sent) : sent[k].type = "event" /\ sent[k].event = "output"}

\* C21: after every handler sys.stdout is bound to the original stdout again
\* and no text has been written to it outside a message; a launch whose
\* simulation printed a text has sent it as its first message, one output
\* event of category stdout, with the launch response right after it, whether
\* the simulation returned or raised; a launch whose simulation printed
\* nothing, or did not run, has sent no output event.
C21_OutputCaptured ==
    /\ sys_stdout = "original"
    /\ printed = <<>>
    /\ Answered("launch") =>
          IF SimulationRan /\ answers[1].output # ""
          THEN /\ OutputEvents = {1}
               /\ IsEvent(sent[1], "output",
                          [output |-> answers[1].output, category |-> "stdout"])
               /\ Len(sent) >= 2
               /\ sent[2].type = "response"
               /\ sent[2].command = "launch"
               /\ \A k \in 3..Len(sent) : sent[k].type # "response"
          ELSE OutputEvents = {}

\* a simulation that printed and then raised
C21_Witness ==
    /\ SimulationRan
    /\ answers[1].kind = "sim_raises"
    /\ answers[1].output = "compiled"
    /\ sys_stdout = "original"
    /\ Len(sent) = 2
    /\ IsEvent(sent[1], "output", [output |-> "compiled", category |-> "stdout"])
    /\ sent[2].type = "response"
    /\ ~sent[2].success

\* C22: a stream of whole messages that are no requests, which then ends, ends
\* inside a header block or a body, or goes on with a header block without
\* Content-Length, ends the loop without an exception, and nothing is sent.
C22_IncompleteEndsSilently ==
    /\ pc # "crashed"
    /\ log = <<>>

\* the message read last is no request
Skipped == req # None /\ req.type # "request"

Responses == {k \in 1..Len(sent) : sent[k].type = "response"}

\* C23: nothing is sent for a message that is no request, and the step that
\* reads it leaves the counter, everything written so far, the session state
\* and the loop's place as they were; a request whose handler has returned
\* has exactly one response among the messages sent for it.
C23_NonRequestSkipped ==
    /\ [](Skipped => sent = <<>>)
    /\ []((req # None /\ req.type = "request" /\ pc \in {"read", "exit"}) =>
            Cardinality(Responses) = 1)
    /\ [][(Skipped' /\ req' # req) =>
            /\ seq' = seq
            /\ log' = log
            /\ Session' = Session
            /\ pc' = pc]_vars

\* a response of the client skipped in a session that has a trace and has
\* sent messages before
C23_Witness ==
    /\ Skipped
    /\ req.type = "response"
    /\ sent = <<>>
    /\ seq > 1
    /\ HasTrace(debugger)
    /\ pc = "read"

====
